---- MODULE Spec2Model ----
(***************************************************************************)
(* A model of the Telegram analytics bot: the SQL sanitizer of src/nlp.py  *)
(* (sanitize_sql, character by character), the translation step            *)
(* query_to_sql, the per-message handler of src/bot.py and the settings    *)
(* loader of src/config.py.                                                *)
(*                                                                         *)
(* A text is a sequence of characters; a character is a one-character      *)
(* string.  The Cyrillic letters of the second label sanitize_sql strips    *)
(* (the Russian word for "answer", written Otvet below) are named by their *)
(* code points: "U041E" is the one character CYRILLIC CAPITAL LETTER O.    *)
(***************************************************************************)
EXTENDS Integers, Sequences, FiniteSets, TLC

VARIABLES
    \* ---- the sanitizer alone (SpecSan) ----
    raw,        \* the raw completion handed to sanitize_sql
    inner,      \* the text the completion was built from (inside the fence, if any)
    fenced,     \* whether the completion is inner inside a code fence
    fence_tag,  \* the tag after the opening fence (empty: no tag)
    san_pc,     \* "raw" -> "once" (query_to_sql's call) -> "twice" (handle's call)
    sql_once,   \* sanitize_sql(raw)
    sql_twice,  \* sanitize_sql(sanitize_sql(raw))
    \* ---- the bot (Spec) ----
    llm_provider,   \* settings.llm_provider, read-only after the start
    handlers,       \* per incoming message: the frame of its handle() coroutine
                    \* and what the provider, the database and the chat saw of it
    \* ---- the settings loader (SpecCfg) ----
    env,                \* the names set in the environment (or in .env)
    env_llm_provider,   \* the value of LLM_PROVIDER there, if it is set
    load,               \* "unloaded", then "loaded" or "ValidationError"
    \* ---- the connection pool of db.py (SpecPool) ----
    pool,           \* the global pool of db.py: 0 is None, else a pool's number
    pools,          \* every pool created so far, by number: "open", "closing", "closed"
    tasks,          \* per coroutine: the db.py function it runs and where it waits
    ops_started     \* how many calls into db.py were made

san_vars == <<raw, inner, fenced, fence_tag, san_pc, sql_once, sql_twice>>
bot_vars == <<llm_provider, handlers>>
cfg_vars == <<env, env_llm_provider, load>>
pool_vars == <<pool, pools, tasks, ops_started>>
vars == <<san_vars, bot_vars, cfg_vars, pool_vars>>

-----------------------------------------------------------------------------
(* Bounds *)

\* The longest completion, in fragments (see Frags).
MaxFrags == 4

\* The longest text inside a code fence, in fragments.
MaxInner == 2

\* The messages the dispatcher hands to handle(), concurrently.
NumMessages == 2

\* The coroutines that call into db.py concurrently.
NumTasks == 2

\* The calls into db.py made in one run.
MaxOps == 4

-----------------------------------------------------------------------------
(* Characters and Python's str helpers *)

\* str.strip() and the regex class \s: the ASCII white space.
WS == {" ", "\n", "\t", "\r"}

UpperChars ==
    <<"A","B","C","D","E","F","G","H","I","J","K","L","M","N","O","P","Q","R",
      "S","T","U","V","W","X","Y","Z","U041E","U0422","U0412","U0415">>

LowerChars ==
    <<"a","b","c","d","e","f","g","h","i","j","k","l","m","n","o","p","q","r",
      "s","t","u","v","w","x","y","z","U043E","U0442","U0432","U0435">>

\* One character under re.IGNORECASE / str.lower().
ToLower(c) ==
    IF \E i \in DOMAIN UpperChars : UpperChars[i] = c
    THEN LowerChars[CHOOSE i \in DOMAIN UpperChars : UpperChars[i] = c]
    ELSE c

lower(s) == [i \in 1..Len(s) |-> ToLower(s[i])]

Drop(s, n) == SubSeq(s, n + 1, Len(s))

startswith(s, p) == Len(s) >= Len(p) /\ SubSeq(s, 1, Len(p)) = p

endswith(s, p) == Len(s) >= Len(p) /\ SubSeq(s, Len(s) - Len(p) + 1, Len(s)) = p

\* startswith under re.IGNORECASE; p is written in lower case.
StartsWithCI(s, p) == Len(s) >= Len(p) /\ lower(SubSeq(s, 1, Len(p))) = p

\* The first index >= i of s that holds no white space (Len(s) + 1 if none): \s*.
SkipWS(s, i) ==
    CHOOSE k \in i..(Len(s) + 1) :
        /\ \A j \in i..(k - 1) : s[j] \in WS
        /\ (k = Len(s) + 1 \/ s[k] \notin WS)

lstrip(s) == Drop(s, SkipWS(s, 1) - 1)

rstrip(s) ==
    LET k == CHOOSE e \in 0..Len(s) :
                 /\ \A j \in (e + 1)..Len(s) : s[j] \in WS
                 /\ (e = 0 \/ s[e] \notin WS)
    IN  SubSeq(s, 1, k)

strip(s) == rstrip(lstrip(s))

\* The number of characters c in s.
Count(s, c) == Cardinality({i \in 1..Len(s) : s[i] = c})

-----------------------------------------------------------------------------
(* sanitize_sql, step by step *)

\* The grave accent (backtick), named by its code point like the Cyrillic letters.
BACKTICK == "U0060"
FENCE == <<BACKTICK, BACKTICK, BACKTICK>>
TagSql == <<"s", "q", "l">>
LabelSql == <<"s", "q", "l">>
LabelOtvet == <<"U043E", "U0442", "U0432", "U0435", "U0442">>
CREATOR_ID == <<"c", "r", "e", "a", "t", "o", "r", "_", "i", "d">>
CreatorPlain == CREATOR_ID \o <<" ", "=", " ", "'">>
CreatorText == CREATOR_ID \o <<":", ":", "t", "e", "x", "t", " ", "=", " ", "'">>

HexChars ==
    {"0","1","2","3","4","5","6","7","8","9",
     "a","b","c","d","e","f","A","B","C","D","E","F"}

\* The 36 characters of the 8-4-4-4-12 form.
IsUuidText(val) ==
    /\ Len(val) >= 36
    /\ \A i \in 1..36 :
          IF i \in {9, 14, 19, 24} THEN val[i] = "-" ELSE val[i] \in HexChars

\* UUID_RE.match(val): "^...$" without re.MULTILINE, so "$" matches at the end
\* of val and also just before a line break that ends val.
UUID_RE_match(val) ==
    /\ IsUuidText(val)
    /\ \/ Len(val) = 36
       \/ Len(val) = 37 /\ val[37] = "\n"

\* StripLeadingFence without re.IGNORECASE: only the tag in lower case goes.
StripLeadingFenceCaseSensitive(s) ==
    IF startswith(s, FENCE)
    THEN LET a == Drop(s, 3)
             b == IF startswith(a, TagSql) THEN Drop(a, 3) ELSE a
         IN  lstrip(b)
    ELSE s

\* re.sub at nlp.py:30, re.IGNORECASE: at the start, three backticks, an
\* optional tag sql, then white space.
StripLeadingFence(s) ==
    IF startswith(s, FENCE)
    THEN LET a == Drop(s, 3)
             b == IF StartsWithCI(a, TagSql) THEN Drop(a, 3) ELSE a
         IN  lstrip(b)
    ELSE s

\* re.sub at nlp.py:31: white space, three backticks, "$".  The fence ends the
\* text, or stands just before a line break that ends it ("$" without
\* re.MULTILINE); the white space before the fence goes with it.
StripTrailingFence(s) ==
    LET n == Len(s)
        e == IF endswith(s, FENCE) THEN n
             ELSE IF n >= 4 /\ s[n] = "\n" /\ SubSeq(s, n - 3, n - 1) = FENCE
                  THEN n - 1
                  ELSE 0
    IN  IF e = 0 THEN s
        ELSE rstrip(SubSeq(s, 1, e - 3)) \o SubSeq(s, e + 1, n)

\* nlp.py:34-35: a text that starts and ends with a backtick loses both: sql[1:-1].strip()
StripBackticks(s) ==
    IF Len(s) >= 1 /\ s[1] = BACKTICK /\ s[Len(s)] = BACKTICK
    THEN strip(SubSeq(s, 2, Len(s) - 1))
    ELSE s

\* re.sub(r"^(SQL|Otvet)\s*:\s*", "", sql, flags=re.IGNORECASE).strip()
StripLabel(s) ==
    LET l == IF StartsWithCI(s, LabelSql) THEN 3
             ELSE IF StartsWithCI(s, LabelOtvet) THEN 5
             ELSE 0
        c == SkipWS(s, l + 1)
    IN  IF l > 0 /\ c <= Len(s) /\ s[c] = ":"
        THEN strip(Drop(s, SkipWS(s, c + 1) - 1))
        ELSE strip(s)

\* if ";" in sql: first = sql.split(";")[0].strip(); if first: sql = first + ";"
KeepFirstStatement(s) ==
    IF \E i \in 1..Len(s) : s[i] = ";"
    THEN LET k == CHOOSE i \in 1..Len(s) :
                      s[i] = ";" /\ \A j \in 1..(i - 1) : s[j] # ";"
             first == strip(SubSeq(s, 1, k - 1))
         IN  IF first # <<>> THEN Append(first, ";") ELSE s
    ELSE s

(* The pattern of re.sub at nlp.py:53, under re.IGNORECASE: creator_id, white *)
(* space, "=", white space, a quote, one or more characters that are not a   *)
(* quote, a quote.  CreatorMatchEnd is the index of the closing quote of the *)
(* match that starts at i, and 0 if no match starts there.                   *)
CreatorMatchEnd(s, i) ==
    LET n == Len(s)
        a == SkipWS(s, i + 10)
        b == SkipWS(s, a + 1)
        c == CHOOSE k \in (b + 1)..(n + 1) :
                 /\ \A j \in (b + 1)..(k - 1) : s[j] # "'"
                 /\ (k = n + 1 \/ s[k] = "'")
    IN  IF /\ i + 9 <= n
           /\ lower(SubSeq(s, i, i + 9)) = CREATOR_ID
           /\ a <= n /\ s[a] = "="
           /\ b <= n /\ s[b] = "'"
           /\ c <= n /\ c > b + 1
        THEN c
        ELSE 0

\* m.group(1) of the match that starts at i and ends at c.
CreatorMatchValue(s, i, c) ==
    LET b == SkipWS(s, SkipWS(s, i + 10) + 1)
    IN  SubSeq(s, b + 1, c - 1)

repl_creator(val) ==
    IF UUID_RE_match(val)
    THEN CreatorPlain \o val \o <<"'">>
    ELSE CreatorText \o val \o <<"'">>

\* Where the first match at or after i starts; 0 if there is none.
NextCreatorMatch(s, i) ==
    LET starts == {k \in i..Len(s) : CreatorMatchEnd(s, k) > 0}
    IN  IF starts = {} THEN 0
        ELSE CHOOSE k \in starts : \A j \in starts : k <= j

\* re.sub(pattern, repl_creator, sql): every match, left to right, not
\* overlapping; the text between the matches is kept.
RECURSIVE SubCreator(_, _)
SubCreator(s, i) ==
    LET k == NextCreatorMatch(s, i)
        c == CreatorMatchEnd(s, k)
    IN  IF k = 0 THEN SubSeq(s, i, Len(s))
        ELSE SubSeq(s, i, k - 1)
                 \o repl_creator(CreatorMatchValue(s, k, c))
                 \o SubCreator(s, c + 1)

RewriteCreator(s) == SubCreator(s, 1)

\* The text after the two fence substitutions (steps 1-2).
Unfenced(sql) == StripTrailingFence(StripLeadingFence(strip(sql)))

\* Steps 3-5 on an unfenced text: the statement the creator_id rewrite reads.
Retained(s) == KeepFirstStatement(StripLabel(StripBackticks(s)))

sanitize_sql(sql) == RewriteCreator(Retained(Unfenced(sql)))

-----------------------------------------------------------------------------
(* The completions the sanitizer is run on *)

UuidSample ==
    <<"1","2","3","4","5","6","7","8","-","9","a","b","c","-","D","E","F","0",
      "-","1","2","3","4","-","5","6","7","8","9","a","b","c","d","e","f","0">>

\* What a completion is made of: formatting noise, labels, separators, a piece
\* of SQL, the two spellings of the creator_id comparison and its literals.
Frags ==
    << FENCE,
       <<"s", "q", "l">>,
       <<"S", "Q", "L", ":">>,
       <<"U041E", "U0442", "U0432", "U0435", "U0442", " ", ":">>,
       <<" ">>,
       <<"\n">>,
       <<BACKTICK>>,
       <<";">>,
       <<"S", "E", "L", "E", "C", "T", " ", "1">>,
       <<"c","r","e","a","t","o","r","_","i","d"," ","="," ","'","4","2">>,
       <<"C","R","E","A","T","O","R","_","I","D","=","'">> \o UuidSample,
       <<"'">> >>

RECURSIVE Flatten(_)
Flatten(fs) == IF fs = <<>> THEN <<>> ELSE Frags[Head(fs)] \o Flatten(Tail(fs))

FenceTags == {<<>>, <<"s", "q", "l">>, <<"S", "Q", "L">>}

\* inner inside a code fence with the given tag.
Fenced(tag, t) == FENCE \o tag \o t \o FENCE

\* The texts of at most n fragments.
Texts(n) == UNION { {Flatten(fs) : fs \in [1..k -> DOMAIN Frags]} : k \in 0..n }

\* No message is being handled (the sanitizer is checked alone).
BotIdle ==
    /\ llm_provider = <<>>
    /\ handlers = <<>>

\* Nothing calls into db.py.
PoolIdle ==
    /\ pool = 0
    /\ pools = <<>>
    /\ tasks = <<>>
    /\ ops_started = 0

\* The settings are not what is looked at.
CfgIdle ==
    /\ env = {}
    /\ env_llm_provider = <<>>
    /\ load = "idle"

\* A completion as the provider returned it, no fence put around it.
InitSan ==
    /\ BotIdle /\ CfgIdle /\ PoolIdle
    /\ inner \in Texts(MaxFrags)
    /\ fenced = FALSE
    /\ fence_tag = <<>>
    /\ raw = inner
    /\ san_pc = "raw"
    /\ sql_once = <<>>
    /\ sql_twice = <<>>

\* A completion that is a text inside a code fence, tagged or not.
InitFence ==
    /\ BotIdle /\ CfgIdle /\ PoolIdle
    /\ inner \in Texts(MaxInner)
    /\ fenced = TRUE
    /\ fence_tag \in FenceTags
    /\ raw = Fenced(fence_tag, inner)
    /\ san_pc = "raw"
    /\ sql_once = <<>>
    /\ sql_twice = <<>>

\* query_to_sql: return sanitize_sql(raw)
SanitizeInTranslate ==
    /\ san_pc = "raw"
    /\ sql_once' = sanitize_sql(raw)
    /\ san_pc' = "once"
    /\ UNCHANGED <<raw, inner, fenced, fence_tag, sql_twice>>
    /\ UNCHANGED <<bot_vars, cfg_vars, pool_vars>>

\* handle: sql = sanitize_sql(sql)
SanitizeInHandle ==
    /\ san_pc = "once"
    /\ sql_twice' = sanitize_sql(sql_once)
    /\ san_pc' = "twice"
    /\ UNCHANGED <<raw, inner, fenced, fence_tag, sql_once>>
    /\ UNCHANGED <<bot_vars, cfg_vars, pool_vars>>

NextSan == SanitizeInTranslate \/ SanitizeInHandle

SpecSan == InitSan /\ [][NextSan]_vars

SpecFence == InitFence /\ [][NextSan]_vars

-----------------------------------------------------------------------------
(* query_to_sql and the message handler of bot.py *)

\* The constant system instruction and the two fixed replies, each named as a
\* one-symbol text: their wording plays no part.
SCHEMA_DESCRIPTION == <<"SCHEMA_DESCRIPTION">>
EMPTY_REPLY == <<"EMPTY_REPLY">>
APOLOGY == <<"APOLOGY">>

OPENAI == <<"o", "p", "e", "n", "a", "i">>
GIGACHAT == <<"g", "i", "g", "a", "c", "h", "a", "t">>

Digits == <<"0", "1", "2", "3", "4", "5", "6", "7", "8", "9">>

RECURSIVE NatStr(_)
NatStr(n) ==
    IF n < 10 THEN <<Digits[n + 1]>>
    ELSE NatStr(n \div 10) \o <<Digits[(n % 10) + 1]>>

\* Python's str() of an int.
str(n) == IF n < 0 THEN <<"-">> \o NatStr(-n) ELSE NatStr(n)

\* A value that may be None.
None == [is_none |-> TRUE, value |-> 0, text |-> <<>>]
Number(n) == [is_none |-> FALSE, value |-> n, text |-> <<>>]
Text(t) == [is_none |-> FALSE, value |-> 0, text |-> t]

\* What the environment may answer.
Providers ==
    { OPENAI,
      <<" ", "G", "i", "g", "a", "C", "h", "a", "t", "\n">>,
      <<"c", "l", "a", "u", "d", "e">> }

MessageTexts == { <<" ">>, <<" ", "q", "\n">> }

Completions ==
    { None,
      Text(<<"S", "E", "L", "E", "C", "T", " ", "1", ";", " ", "x">>),
      Text(<<"S", "Q", "L", ":", "s", "q", "l", ":", "x">>) }

Scalars == { None, Number(0), Number(42), Number(-7) }

Messages == 1..NumMessages

\* openai.ChatCompletion.acreate(model=, messages=, temperature=0.0, max_tokens=200)
OpenAIRequest(question) ==
    [ provider |-> "openai",
      messages |-> << [role |-> "system", content |-> SCHEMA_DESCRIPTION],
                      [role |-> "user", content |-> strip(question)] >>,
      kwargs |-> { <<"temperature", 0>>, <<"max_tokens", 200>> } ]

\* client.achat(Chat(messages=[...])): the Chat carries the messages alone.
GigaChatRequest(question) ==
    [ provider |-> "gigachat",
      messages |-> << [role |-> "system", content |-> SCHEMA_DESCRIPTION],
                      [role |-> "user", content |-> strip(question)] >>,
      kwargs |-> {} ]

NoRequest == [provider |-> "", messages |-> <<>>, kwargs |-> {}]

\* provider = settings.llm_provider.lower().strip()
SelectedProvider == strip(lower(llm_provider))

\* The exceptions the stages raise, all subclasses of Exception: the
\* ValueError of query_to_sql, a provider error, the AttributeError of
\* sanitize_sql(None), a database error.
Exceptions == {"ValueError", "ProviderError", "AttributeError", "PostgresError"}

\* except ValueError: a narrower clause than the handler's.
CaughtValueErrorOnly(exc) == exc = "ValueError"

\* except Exception:
Caught(exc) == exc \in Exceptions

\* str(result): no zero for None.
RenderResultNoDefault(result) ==
    IF result.is_none THEN <<"N", "o", "n", "e">> ELSE str(result.value)

\* str(result if result is not None else 0)
RenderResult(result) == str(IF result.is_none THEN 0 ELSE result.value)

\* A frame before handle() runs on the message.
NewHandler(text) ==
    [ pc |-> "queued",          \* queued -> llm -> db -> done
      text |-> text,            \* message.text
      translated |-> FALSE,     \* query_to_sql was entered
      request |-> NoRequest,    \* the request sent to the provider
      llm_calls |-> 0,          \* outbound calls to the provider
      completion |-> None,      \* what the provider returned
      sql |-> <<>>,             \* the SQL handed to fetchval
      db_calls |-> 0,           \* executions on the database
      result |-> None,          \* what fetchval returned
      db_ok |-> FALSE,          \* fetchval returned
      raised |-> "",            \* the exception raised inside the try block
      logged |-> <<>>,          \* the log records written
      replies |-> <<>>,         \* the texts sent with message.answer
      escaped |-> FALSE ]       \* an exception left handle()

\* The except clause of handle(): log, apologise, return.  An exception the
\* clause does not catch leaves the handler.
OnException(h, exc) ==
    IF Caught(exc)
    THEN [h EXCEPT !.pc = "done",
                   !.raised = exc,
                   !.logged = Append(@, [level |-> "exception", text |-> strip(h.text)]),
                   !.replies = Append(@, APOLOGY)]
    ELSE [h EXCEPT !.pc = "done", !.raised = exc, !.escaped = TRUE]

\* StartHandle with the second provider as the fallback of an unknown selector.
StartHandleFallback(h) ==
    LET question == strip(h.text)
        entered == [h EXCEPT !.translated = TRUE]
    IN  IF question = <<>>
        THEN [h EXCEPT !.pc = "done", !.replies = Append(@, EMPTY_REPLY)]
        ELSE IF SelectedProvider = OPENAI
        THEN [entered EXCEPT !.pc = "llm",
                             !.request = OpenAIRequest(question),
                             !.llm_calls = @ + 1]
        ELSE [entered EXCEPT !.pc = "llm",
                             !.request = GigaChatRequest(question),
                             !.llm_calls = @ + 1]

\* handle() up to its first suspension: the blank message is answered at once;
\* otherwise query_to_sql picks the provider and sends the request, or raises.
StartHandle(h) ==
    LET question == strip(h.text)
        entered == [h EXCEPT !.translated = TRUE]
    IN  IF question = <<>>
        THEN [h EXCEPT !.pc = "done", !.replies = Append(@, EMPTY_REPLY)]
        ELSE IF SelectedProvider = OPENAI
        THEN [entered EXCEPT !.pc = "llm",
                             !.request = OpenAIRequest(question),
                             !.llm_calls = @ + 1]
        ELSE IF SelectedProvider = GIGACHAT
        THEN [entered EXCEPT !.pc = "llm",
                             !.request = GigaChatRequest(question),
                             !.llm_calls = @ + 1]
        ELSE OnException(entered, "ValueError")

\* The provider returned c: query_to_sql sanitizes it, handle sanitizes it
\* again, logs the SQL and calls fetchval.
OnCompletion(h, c) ==
    IF c.is_none
    THEN OnException([h EXCEPT !.completion = c], "AttributeError")
    ELSE LET sql == sanitize_sql(sanitize_sql(c.text))
         IN  [h EXCEPT !.pc = "db",
                       !.completion = c,
                       !.sql = sql,
                       !.logged = Append(@, [level |-> "info", text |-> sql]),
                       !.db_calls = @ + 1]

\* fetchval returned v: the reply is its rendering.
OnResult(h, v) ==
    [h EXCEPT !.pc = "done",
              !.result = v,
              !.db_ok = TRUE,
              !.replies = Append(@, RenderResult(v))]

Init ==
    /\ raw = <<>> /\ inner = <<>> /\ fenced = FALSE /\ fence_tag = <<>>
    /\ san_pc = "idle" /\ sql_once = <<>> /\ sql_twice = <<>>
    /\ CfgIdle /\ PoolIdle
    /\ llm_provider \in Providers
    /\ handlers \in [Messages -> {NewHandler(t) : t \in MessageTexts}]

Handle(m) ==
    /\ handlers[m].pc = "queued"
    /\ handlers' = [handlers EXCEPT ![m] = StartHandle(@)]
    /\ UNCHANGED <<llm_provider, san_vars, cfg_vars, pool_vars>>

LLMReturns(m) ==
    /\ handlers[m].pc = "llm"
    /\ \E c \in Completions :
           handlers' = [handlers EXCEPT ![m] = OnCompletion(@, c)]
    /\ UNCHANGED <<llm_provider, san_vars, cfg_vars, pool_vars>>

\* LLMRaises with one retry of the provider call before giving up.
LLMRaisesRetry(m) ==
    /\ handlers[m].pc = "llm"
    /\ handlers' = [handlers EXCEPT ![m] =
           IF @.llm_calls < 2
           THEN [@ EXCEPT !.llm_calls = @ + 1]
           ELSE OnException(@, "ProviderError")]
    /\ UNCHANGED <<llm_provider, san_vars, cfg_vars, pool_vars>>

LLMRaises(m) ==
    /\ handlers[m].pc = "llm"
    /\ handlers' = [handlers EXCEPT ![m] = OnException(@, "ProviderError")]
    /\ UNCHANGED <<llm_provider, san_vars, cfg_vars, pool_vars>>

DBReturns(m) ==
    /\ handlers[m].pc = "db"
    /\ \E v \in Scalars :
           handlers' = [handlers EXCEPT ![m] = OnResult(@, v)]
    /\ UNCHANGED <<llm_provider, san_vars, cfg_vars, pool_vars>>

DBRaises(m) ==
    /\ handlers[m].pc = "db"
    /\ handlers' = [handlers EXCEPT ![m] = OnException(@, "PostgresError")]
    /\ UNCHANGED <<llm_provider, san_vars, cfg_vars, pool_vars>>

Next ==
    \E m \in Messages :
        \/ Handle(m)
        \/ LLMReturns(m)
        \/ LLMRaises(m)
        \/ DBReturns(m)
        \/ DBRaises(m)

Spec == Init /\ [][Next]_vars

-----------------------------------------------------------------------------
(* The settings of config.py *)

EnvNames ==
    { "BOT_TOKEN", "DATABASE_URL", "OPENAI_API_KEY", "LLM_MODEL", "LLM_PROVIDER",
      "GIGACHAT_CREDENTIALS", "GIGACHAT_SCOPE", "GIGACHAT_MODEL",
      "GIGACHAT_CA_BUNDLE_FILE", "GIGACHAT_VERIFY_SSL_CERTS" }

\* The fields declared Field(...): no default, so a value must be given.
RequiredFields == { "BOT_TOKEN", "DATABASE_URL", "OPENAI_API_KEY" }

\* Settings(): pydantic raises ValidationError when a required field is missing.
Settings(given) == IF RequiredFields \subseteq given THEN "loaded" ELSE "ValidationError"

\* llm_provider: str = Field("openai", env="LLM_PROVIDER")
LoadedProvider == IF "LLM_PROVIDER" \in env THEN env_llm_provider ELSE OPENAI

InitCfg ==
    /\ raw = <<>> /\ inner = <<>> /\ fenced = FALSE /\ fence_tag = <<>>
    /\ san_pc = "idle" /\ sql_once = <<>> /\ sql_twice = <<>>
    /\ BotIdle /\ PoolIdle
    /\ env \in SUBSET EnvNames
    /\ env_llm_provider \in (IF "LLM_PROVIDER" \in env THEN {OPENAI, GIGACHAT} ELSE {<<>>})
    /\ load = "unloaded"

\* settings = get_settings(), at the import of config.py
get_settings ==
    /\ load = "unloaded"
    /\ load' = Settings(env)
    /\ llm_provider' = IF Settings(env) = "loaded" THEN LoadedProvider ELSE llm_provider
    /\ UNCHANGED <<env, env_llm_provider, handlers, san_vars, pool_vars>>

NextCfg == get_settings

SpecCfg == InitCfg /\ [][NextCfg]_vars

-----------------------------------------------------------------------------
(* The connection pool of db.py *)

Tasks == 1..NumTasks

\* The functions of db.py that touch the global pool.
QueryOps == {"run_migrations", "fetch", "fetchval", "execute"}
PoolOps == {"init_pool", "close_pool"} \cup QueryOps

\* A coroutine that is not inside db.py.
IdleTask == [op |-> "", pc |-> "idle", p |-> 0]

\* async with pool.acquire() as conn: on the pool the global names now.  A pool
\* that is closing or closed refuses (asyncpg raises InterfaceError), and the
\* call ends there.
Acquire(op, id) ==
    IF pools[id] = "open"
    THEN [op |-> op, pc |-> "querying", p |-> id]
    ELSE IdleTask

\* A call up to its first suspension.
\*   init_pool:  pool = await asyncpg.create_pool(dsn=dsn)
\*   close_pool: if pool is not None: await pool.close() ...
\*   the others: if pool is None: await init_pool() ... pool.acquire()
EnterOp(op) ==
    IF op = "init_pool" THEN [op |-> op, pc |-> "creating", p |-> 0]
    ELSE IF op = "close_pool"
    THEN (IF pool # 0 THEN [op |-> op, pc |-> "closing", p |-> pool] ELSE IdleTask)
    ELSE (IF pool = 0 THEN [op |-> op, pc |-> "creating", p |-> 0]
          ELSE Acquire(op, pool))

\* Pool.close() marks the pool as closing before it first waits.
MarkClosing(ps, id) ==
    IF ps[id] = "open" THEN [ps EXCEPT ![id] = "closing"] ELSE ps

InitPool ==
    /\ raw = <<>> /\ inner = <<>> /\ fenced = FALSE /\ fence_tag = <<>>
    /\ san_pc = "idle" /\ sql_once = <<>> /\ sql_twice = <<>>
    /\ BotIdle /\ CfgIdle
    /\ pool = 0
    /\ pools = <<>>
    /\ tasks = [t \in Tasks |-> IdleTask]
    /\ ops_started = 0

\* A coroutine calls one of the functions of db.py.
CallOp(t) ==
    /\ tasks[t].pc = "idle"
    /\ ops_started < MaxOps
    /\ \E op \in PoolOps :
           /\ tasks' = [tasks EXCEPT ![t] = EnterOp(op)]
           /\ pools' = IF op = "close_pool" /\ pool # 0
                       THEN MarkClosing(pools, pool) ELSE pools
    /\ ops_started' = ops_started + 1
    /\ UNCHANGED <<pool, san_vars, bot_vars, cfg_vars>>

\* asyncpg.create_pool returns a new pool and init_pool stores it in the
\* global, whatever the global held; a caller of init_pool goes on to acquire.
CreatePoolReturns(t) ==
    /\ tasks[t].pc = "creating"
    /\ LET id == Len(pools) + 1
       IN  /\ pools' = Append(pools, "open")
           /\ pool' = id
           /\ tasks' = [tasks EXCEPT ![t] =
                  IF @.op = "init_pool" THEN IdleTask
                  ELSE [op |-> @.op, pc |-> "querying", p |-> id]]
    /\ UNCHANGED <<ops_started, san_vars, bot_vars, cfg_vars>>

\* asyncpg.create_pool raises: no pool, the call ends with the exception.
CreatePoolRaises(t) ==
    /\ tasks[t].pc = "creating"
    /\ tasks' = [tasks EXCEPT ![t] = IdleTask]
    /\ UNCHANGED <<pool, pools, ops_started, san_vars, bot_vars, cfg_vars>>

\* The statement returns or raises; the connection goes back to its pool.
QueryEnds(t) ==
    /\ tasks[t].pc = "querying"
    /\ tasks' = [tasks EXCEPT ![t] = IdleTask]
    /\ UNCHANGED <<pool, pools, ops_started, san_vars, bot_vars, cfg_vars>>

\* await pool.close() returns, once every connection of that pool is back;
\* then close_pool sets the global to None, whatever it holds by now.
ClosePoolReturns(t) ==
    /\ tasks[t].pc = "closing"
    /\ \A o \in Tasks : ~(tasks[o].pc = "querying" /\ tasks[o].p = tasks[t].p)
    /\ pools' = [pools EXCEPT ![tasks[t].p] = "closed"]
    /\ pool' = 0
    /\ tasks' = [tasks EXCEPT ![t] = IdleTask]
    /\ UNCHANGED <<ops_started, san_vars, bot_vars, cfg_vars>>

NextPool ==
    \E t \in Tasks :
        \/ CallOp(t)
        \/ CreatePoolReturns(t)
        \/ CreatePoolRaises(t)
        \/ QueryEnds(t)
        \/ ClosePoolReturns(t)

SpecPool == InitPool /\ [][NextPool]_vars

-----------------------------------------------------------------------------
(* The sanitizer's claims *)

\* C1 (as stated): a completion that holds a ";" is sanitized to a text with
\* exactly one ";", its last character, and so no sanitized text holds more
\* than one ";".
C1_OneStatement ==
    san_pc # "raw" =>
        /\ Count(raw, ";") > 0 =>
              /\ Count(sql_once, ";") = 1
              /\ sql_once[Len(sql_once)] = ";"
        /\ Count(sql_once, ";") <= 1

\* The comparison rewrite as C2 states it: cast to text unless the literal is
\* a canonical UUID, which is its 36 characters and nothing more.
IsCanonicalUuid(val) == Len(val) = 36 /\ IsUuidText(val)

RECURSIVE ClaimedSubCreator(_, _)
ClaimedSubCreator(s, i) ==
    LET k == NextCreatorMatch(s, i)
        c == CreatorMatchEnd(s, k)
        val == CreatorMatchValue(s, k, c)
    IN  IF k = 0 THEN SubSeq(s, i, Len(s))
        ELSE SubSeq(s, i, k - 1)
                 \o (IF IsCanonicalUuid(val) THEN CreatorPlain ELSE CreatorText)
                 \o val \o <<"'">>
                 \o ClaimedSubCreator(s, c + 1)

\* C2 (as stated): in the sanitized text every comparison creator_id = '<v>'
\* of the retained statement is cast to text when <v> is not a canonical UUID
\* and left a plain equality when it is, at every occurrence.
C2_CastUnlessUuid ==
    san_pc # "raw" => sql_once = ClaimedSubCreator(Retained(Unfenced(raw)), 1)

\* C3 (as stated): sanitize_sql is idempotent, so the SQL handle executes
\* (sanitized twice) is the completion sanitized once.
C3_Idempotent ==
    san_pc = "twice" => sql_twice = sql_once

\* C4 (as stated): a fenced text is sanitized to the inner text itself.
C4_InnerUnchanged ==
    (fenced /\ san_pc # "raw") => sql_once = inner

\* What the opening fence's pattern leaves of the inner text: with no tag after
\* the fence, an inner text that itself starts with "sql" loses those letters.
AfterFence(tag, t) ==
    IF tag = <<>> /\ StartsWithCI(t, TagSql) THEN Drop(t, 3) ELSE t

\* C4 (amended): a fenced text is sanitized to what the steps after the fence
\* removal (backtick pair, label, first statement, creator_id rewrite) make of
\* the inner text stripped of white space.
C4_FenceThenRest ==
    (fenced /\ san_pc # "raw") =>
        sql_once = RewriteCreator(Retained(strip(AfterFence(fence_tag, inner))))

\* C4's case: a tagged fence around a text with a separator, which the later
\* steps changed.
C4_Witness ==
    /\ fenced /\ san_pc = "once"
    /\ fence_tag = <<"S", "Q", "L">>
    /\ Count(inner, ";") > 0
    /\ sql_once # <<>>
    /\ sql_once # inner

-----------------------------------------------------------------------------
(* The handler's claims *)

NonBlank(h) == strip(h.text) # <<>>

\* C5: a failure of the provider call, of the sanitizer or of the database
\* execution ends the handler normally with the failure logged with the
\* question and the fixed apology as the one reply; no exception leaves the
\* handler, and any other message that got its result has its own reply.
C5_FailuresHandled ==
    \A m \in DOMAIN handlers :
        LET h == handlers[m]
        IN  h.raised # "" =>
                /\ h.pc = "done"
                /\ ~h.escaped
                /\ h.replies = <<APOLOGY>>
                /\ h.logged # <<>>
                /\ h.logged[Len(h.logged)] =
                       [level |-> "exception", text |-> strip(h.text)]
                /\ \A o \in DOMAIN handlers \ {m} :
                       /\ ~handlers[o].escaped
                       /\ handlers[o].db_ok =>
                              handlers[o].replies = <<RenderResult(handlers[o].result)>>

\* C5's case: the database failed one message while another got its number.
C5_Witness ==
    /\ DOMAIN handlers = Messages
    /\ handlers[1].raised = "PostgresError"
    /\ handlers[1].replies = <<APOLOGY>>
    /\ handlers[2].db_ok
    /\ handlers[2].replies = << <<"4", "2">> >>

UnknownProvider == SelectedProvider \notin {OPENAI, GIGACHAT}

\* C6 (as stated): with an unknown provider selector no outbound call is made
\* and the error is fatal: translation is not attempted for a later question.
C6_FatalConfigError ==
    (handlers # <<>> /\ UnknownProvider) =>
        /\ \A m \in DOMAIN handlers :
               handlers[m].llm_calls = 0 /\ handlers[m].db_calls = 0
        /\ Cardinality({m \in DOMAIN handlers : handlers[m].translated}) <= 1

\* C6 (amended): with an unknown provider selector every translation attempt
\* raises the configuration error before any outbound call, the handler
\* catches it like any other failure (apology, normal return), and the next
\* question is attempted, and fails, the same way.
C6_ConfigErrorPerQuestion ==
    (handlers # <<>> /\ UnknownProvider) =>
        \A m \in DOMAIN handlers :
            LET h == handlers[m]
            IN  /\ h.llm_calls = 0 /\ h.db_calls = 0 /\ h.request = NoRequest
                /\ h.translated =>
                       /\ h.raised = "ValueError"
                       /\ h.pc = "done"
                       /\ ~h.escaped
                       /\ h.replies = <<APOLOGY>>
                /\ (h.pc = "done" /\ NonBlank(h)) => h.translated

\* C6's case: two questions, each attempted, each failed by the selector.
C6_Witness ==
    /\ handlers # <<>> /\ UnknownProvider
    /\ \A m \in DOMAIN handlers :
           handlers[m].translated /\ handlers[m].raised = "ValueError"

\* C7: after a successful execution the one reply is the string form of the
\* scalar, and "0" when there is no value; never empty, "None" or the apology.
C7_ReplyIsScalar ==
    \A m \in DOMAIN handlers :
        LET h == handlers[m]
        IN  h.db_ok =>
                /\ h.replies =
                       << IF h.result.is_none THEN <<"0">> ELSE str(h.result.value) >>
                /\ h.replies[1] \notin {<<>>, <<"N", "o", "n", "e">>, APOLOGY}

\* C7's case: no value rendered as "0", and a negative value rendered.
C7_Witness ==
    /\ DOMAIN handlers = Messages
    /\ handlers[1].db_ok /\ handlers[1].result.is_none
    /\ handlers[1].replies = << <<"0">> >>
    /\ handlers[2].db_ok /\ handlers[2].result = Number(-7)
    /\ handlers[2].replies = << <<"-", "7">> >>

\* C8 (as stated): every request sent to a provider carries the pair (system
\* instruction, question), temperature 0 and an output-length limit.
C8_SameRequestShape ==
    \A m \in DOMAIN handlers :
        LET h == handlers[m]
        IN  h.llm_calls > 0 =>
                /\ h.request.messages =
                       << [role |-> "system", content |-> SCHEMA_DESCRIPTION],
                          [role |-> "user", content |-> strip(h.text)] >>
                /\ <<"temperature", 0>> \in h.request.kwargs
                /\ \E kw \in h.request.kwargs : kw[1] = "max_tokens" /\ kw[2] > 0

\* C9: per non-blank question at most one provider call and one execution,
\* the execution only after the question's own completion came back and on
\* the SQL made of it, and exactly one reply, made of the question's own result.
C9_LinearPipeline ==
    \A m \in DOMAIN handlers :
        LET h == handlers[m]
        IN  NonBlank(h) =>
                /\ h.llm_calls <= 1 /\ h.db_calls <= 1
                /\ h.db_calls = 1 =>
                       /\ h.llm_calls = 1
                       /\ ~h.completion.is_none
                       /\ h.sql = sanitize_sql(sanitize_sql(h.completion.text))
                /\ h.db_ok => h.db_calls = 1
                /\ h.pc # "done" => h.replies = <<>>
                /\ h.pc = "done" =>
                       h.replies =
                           << IF h.db_ok THEN RenderResult(h.result) ELSE APOLOGY >>

\* C9's case: two questions in flight at once, one answered with its own
\* number while the other still waits for the database.
C9_Witness ==
    /\ DOMAIN handlers = Messages
    /\ NonBlank(handlers[1]) /\ NonBlank(handlers[2])
    /\ handlers[1].pc = "db" /\ handlers[1].llm_calls = 1 /\ handlers[1].db_calls = 1
    /\ handlers[2].pc = "done" /\ handlers[2].db_ok
    /\ handlers[2].replies = << <<"4", "2">> >>
    /\ handlers[1].completion # handlers[2].completion

-----------------------------------------------------------------------------
(* The settings' claim *)

\* What C10 takes the selected provider to need.
RequiredBy(provider) ==
    {"BOT_TOKEN", "DATABASE_URL"} \cup
        (IF provider = GIGACHAT THEN {"GIGACHAT_CREDENTIALS"} ELSE {"OPENAI_API_KEY"})

\* C10 (as stated): the settings load whenever the transport token, the
\* database URL and the selected provider's own fields are given.
C10_LoadsWithSelectedProvider ==
    (load \in {"loaded", "ValidationError"} /\ RequiredBy(LoadedProvider) \subseteq env)
        => load = "loaded"

-----------------------------------------------------------------------------
(* The pool's claim *)

\* The pools that were created and are not closed.
LivePools == {id \in DOMAIN pools : pools[id] # "closed"}

\* C11 (as stated): at most one pool is live at any moment, and every pool ever
\* created is the one the global holds or has been closed.
C11_SinglePool ==
    /\ Cardinality(LivePools) <= 1
    /\ \A id \in LivePools : id = pool

====
